---- MODULE Spec2Model ----
(***************************************************************************)
(* State-machine model of the SQLite MCP adapter: src/server.py (the       *)
(* variant with the attachment registry) and src/sqlite-mcp-server.py (the *)
(* variant without it).  Every tool and resource is one action.  Python    *)
(* strings are sequences of one-character strings, so that isalnum(),      *)
(* upper(), strip(), startswith() and the substring test are computed as   *)
(* the code computes them.                                                 *)
(***************************************************************************)
EXTENDS Integers, Sequences, FiniteSets, TLC

\* ------------------------------------------------------------------ bounds
\* Largest number of connections that may be left open, waiting for the
\* runtime to finalise them.
MaxOpen == 1

\* ----------------------------------------------------------------- strings
LowerChars ==
  <<"a","b","c","d","e","f","g","h","i","j","k","l","m",
    "n","o","p","q","r","s","t","u","v","w","x","y","z">>

UpperChars ==
  <<"A","B","C","D","E","F","G","H","I","J","K","L","M",
    "N","O","P","Q","R","S","T","U","V","W","X","Y","Z">>

Digits == {"0","1","2","3","4","5","6","7","8","9"}

Whitespace == {" ", "\t", "\n"}

Range(s) == {s[i] : i \in DOMAIN s}

\* str.upper(), one character
LowerSet == Range(LowerChars)

UpperOf ==
  [c \in LowerSet |-> UpperChars[CHOOSE i \in DOMAIN LowerChars : LowerChars[i] = c]]

UpperChar(c) == IF c \in LowerSet THEN UpperOf[c] ELSE c

Letters == LowerSet \cup Range(UpperChars)

Alnum == Letters \cup Digits

\* str.upper()
Upper(s) == [i \in 1..Len(s) |-> UpperChar(s[i])]

\* str.isalnum(): non-empty and every character a letter or a digit
IsAlnum(s) == Len(s) > 0 /\ \A i \in 1..Len(s) : s[i] \in Alnum

\* str.strip()
Strip(s) ==
  LET keep == {i \in 1..Len(s) : s[i] \notin Whitespace}
  IN IF keep = {} THEN <<>>
     ELSE LET lo == CHOOSE i \in keep : \A j \in keep : i <= j
              hi == CHOOSE i \in keep : \A j \in keep : j <= i
          IN SubSeq(s, lo, hi)

\* str.startswith(p)
StartsWith(s, p) == Len(s) >= Len(p) /\ SubSeq(s, 1, Len(p)) = p

\* "sub in s"
Contains(s, sub) ==
  \E i \in 0..(Len(s) - Len(sub)) : SubSeq(s, i + 1, i + Len(sub)) = sub

\* --------------------------------------------------------- program inputs
\* Directory of the primary database: os.path.dirname(DEFAULT_DB_PATH).
default_db_dir == <<"/","d">>

\* The primary database file.
DEFAULT_DB_PATH == default_db_dir \o <<"/","p",".","d","b">>

\* os.path.join(a, b): an absolute b discards a.
PathJoin(a, b) ==
  IF Len(b) > 0 /\ b[1] = "/" THEN b
  ELSE IF Len(a) = 0 \/ a[Len(a)] = "/" THEN a \o b
  ELSE a \o <<"/">> \o b

\* Database file names the caller passes.
NameOther == <<"o",".","d","b">>          \* exists from the start, holds table s
NameNew   == <<"n",".","d","b">>          \* does not exist at the start
NameQuote == <<"q","'",".","d","b">>      \* a quote in the name, does not exist
NameNoDir == <<"m","/","x",".","d","b">>  \* its directory does not exist

Names == {NameOther, NameNew, NameQuote, NameNoDir}

\* Aliases the caller passes.
AliasExt   == <<"e","x","t">>
AliasEXT   == <<"E","X","T">>
AliasMinus == <<"a","-","1">>

Aliases == {AliasExt, AliasEXT, AliasMinus}

\* Directories that exist.
Dirs == {default_db_dir}

\* os.path.dirname of a path
DirName(p) ==
  LET slashes == {i \in 1..Len(p) : p[i] = "/"}
  IN IF slashes = {} THEN <<>>
     ELSE LET k == CHOOSE i \in slashes : \A j \in slashes : j <= i
          IN IF k = 1 THEN <<"/">> ELSE SubSeq(p, 1, k - 1)

\* SQL texts the caller passes.
SelectFrom == <<"S","E","L","E","C","T"," ","*"," ","F","R","O","M"," ">>
SqlSelectT   == SelectFrom \o <<"t">>
SqlSelectExt == <<" ","s","e","l","e","c","t"," ","*"," ","f","r","o","m"," ","e","x","t",".","s">>
SqlInsert    == <<"I","N","S","E","R","T"," ","I","N","T","O"," ","t"," ","V","A","L","U","E","S","(","1",")">>
SqlDelete    == <<"d","e","l","e","t","e"," ","f","r","o","m"," ","t">>
SqlTypo      == <<"S","E","L","E","C">>
SqlLiteral   == <<"S","E","L","E","C","T"," ","'","u","p","d","a","t","e","'">>
SqlWith      == <<"W","I","T","H"," ","a"," ","A","S","(","S","E","L","E","C","T"," ","1",")",
                  "S","E","L","E","C","T"," ","*"," ","F","R","O","M"," ","a"," ",
                  "W","H","E","R","E"," ","0">>

\* A write statement on a table of an attached database; it changes no value.
UpdatePrefix == <<"U","P","D","A","T","E"," ">>
UpdateSuffix == <<" ","S","E","T"," ","X","=","X">>
SqlUpdateExt == UpdatePrefix \o <<"e","x","t",".","s">> \o UpdateSuffix

Sqls ==
  {SqlSelectT, SqlSelectExt, SqlInsert, SqlDelete, SqlTypo, SqlLiteral, SqlWith,
   SqlUpdateExt}

\* Table names the caller passes.
TableT    == <<"t">>
TableExtS == <<"e","x","t",".","s">>
TableNone == <<"z">>

Tables == {TableT, TableExtS, TableNone}

\* A statement together with whether the engine fails on it for a reason the
\* statement does not decide.
Requests ==
  {<<s, FALSE>> : s \in Sqls} \cup {<<SqlSelectT, TRUE>>, <<SqlInsert, TRUE>>}

\* The same for the table an operation reads.
TableRequests == {<<t, FALSE>> : t \in Tables} \cup {<<TableT, TRUE>>}

KwSelect == <<"S","E","L","E","C","T">>
KwUpdate == <<"U","P","D","A","T","E">>
KwInsert == <<"I","N","S","E","R","T">>
KwDelete == <<"D","E","L","E","T","E">>

\* -------------------------------------------------------------------- state
VARIABLES
  variant,             \* which source file runs
  files,               \* paths that exist on disk
  attached_databases,  \* SQLiteMCP.attached_databases: insertion-ordered alias -> path
  rows,                \* number of rows of table t of the primary database, 0 or 1
  openConns,           \* connections opened by finished operations and not closed yet
  call                 \* the last operation: its arguments, engine interactions and result

vars == <<variant, files, attached_databases, rows, openConns, call>>

Server == "server.py"
Legacy == "sqlite-mcp-server.py"

\* ---------------------------------------------------------------- registry
\* dict keys
Keys(reg) == {reg[i].alias : i \in DOMAIN reg}

\* dict[alias]
Lookup(reg, alias) == reg[CHOOSE i \in DOMAIN reg : reg[i].alias = alias].path

\* dict assignment that drops what the dict held.
DictSet_replaceAll(reg, alias, path) == <<[alias |-> alias, path |-> path]>>

\* dict[alias] = path: an existing key keeps its position
DictSet(reg, alias, path) ==
  IF alias \in Keys(reg)
  THEN [i \in DOMAIN reg |->
          IF reg[i].alias = alias THEN [alias |-> alias, path |-> path] ELSE reg[i]]
  ELSE Append(reg, [alias |-> alias, path |-> path])

\* ------------------------------------------------------------------ engine
\* Engine interactions of one operation, in order.
Ev(e, a) == <<e, a>>

EvConnect(p)  == Ev("connect", p)
EvAttach(a)   == Ev("attach", a)
EvExecute(s)  == Ev("execute", s)
EvCommit      == Ev("commit", <<>>)
EvRollback    == Ev("rollback", <<>>)
EvClose       == Ev("close", <<>>)
EvRegister(a) == Ev("register", a)

\* Words the engine does not take as a schema name.
SqlKeywords == {KwSelect, KwUpdate, KwInsert, KwDelete}

\* Schema names every connection has.
BuiltinSchemas == {<<"M","A","I","N">>, <<"T","E","M","P">>}

\* Whether the engine takes the text as a schema name after AS.
IsSchemaName(a) ==
  /\ Len(a) > 0
  /\ \A i \in 1..Len(a) : a[i] \in Letters \cup Digits \cup {"_"}
  /\ (a[1] \in Digits => \A i \in 1..Len(a) : a[i] \in Digits)
  /\ Upper(a) \notin SqlKeywords

\* conn.execute(f"ATTACH DATABASE '{path}' AS {alias}") raises, on a connection
\* that already has the schemas `have` (a set of alias/path records).
AttachRaises(alias, path, have, fs) ==
  \/ "'" \in Range(path)
  \/ ~IsSchemaName(alias)
  \/ Upper(alias) \in BuiltinSchemas \cup {Upper(h.alias) : h \in have}
  \/ (path \notin fs /\ DirName(path) \notin Dirs)

\* sqlite3.connect(path) raises: the file can be neither opened nor created.
ConnectRaises(path, fs) == path \notin fs /\ DirName(path) \notin Dirs

\* Files that hold the table s (with one row).
FilesWithS == {PathJoin(default_db_dir, NameOther)}


\* What a table reference of a statement resolves to on a connection that has
\* the schemas `have`: the table's number of rows, or -1 when it does not resolve.
\* Names compare case-insensitively, as in the engine.
TableRows(ref, have, rw) ==
  LET u    == Upper(ref)
      dots == {i \in 1..Len(u) : u[i] = "."}
  IN IF dots = {}
     THEN IF u = Upper(TableT) THEN rw ELSE -1
     ELSE LET k      == CHOOSE i \in dots : \A j \in dots : i <= j
              schema == SubSeq(u, 1, k - 1)
              table  == SubSeq(u, k + 1, Len(u))
          IN IF /\ table = <<"S">>
                /\ \E h \in have : Upper(h.alias) = schema /\ h.path \in FilesWithS
             THEN 1 ELSE -1

\* The statements the engine knows, keywords and names in upper case.
StmtLiteral == Upper(SqlLiteral)
StmtWith    == Upper(SqlWith)
StmtInsert  == Upper(SqlInsert)
StmtDelete  == Upper(SqlDelete)

EngineError      == [err |-> TRUE,  query |-> FALSE, n |-> 0, rows |-> 0]
EngineRows(n, r) == [err |-> FALSE, query |-> TRUE,  n |-> n, rows |-> r]
EngineDml(n, r)  == [err |-> FALSE, query |-> FALSE, n |-> n, rows |-> r]

\* The engine's execution of one statement on a connection with the schemas
\* `have`, the primary table holding rw rows.  The column of t is its primary
\* key, so the row the INSERT statement adds violates a constraint when it is
\* there already.  `fault` is an engine failure the statement does not decide
\* (a locked or unreadable database).
\* n: the rows a query returns, or the rows a write statement changes.
Execute(sql, have, rw, fault) ==
  LET u == Upper(Strip(sql))
  IN IF fault THEN EngineError
     ELSE IF StartsWith(u, SelectFrom)
       THEN LET n == TableRows(SubSeq(u, Len(SelectFrom) + 1, Len(u)), have, rw)
            IN IF n < 0 THEN EngineError ELSE EngineRows(n, rw)
     ELSE IF /\ StartsWith(u, UpdatePrefix)
             /\ Len(u) > Len(UpdatePrefix) + Len(UpdateSuffix)
             /\ SubSeq(u, Len(u) - Len(UpdateSuffix) + 1, Len(u)) = UpdateSuffix
       THEN LET n == TableRows(SubSeq(u, Len(UpdatePrefix) + 1,
                                      Len(u) - Len(UpdateSuffix)), have, rw)
            IN IF n < 0 THEN EngineError ELSE EngineDml(n, rw)
     ELSE IF u = StmtLiteral THEN EngineRows(1, rw)
     ELSE IF u = StmtWith THEN EngineRows(0, rw)
     ELSE IF u = StmtInsert THEN IF rw = 0 THEN EngineDml(1, 1) ELSE EngineError
     ELSE IF u = StmtDelete THEN EngineDml(rw, 0)
     ELSE EngineError

\* ---------------------------------------------------------------- handlers
\* What a handler does: the string it returns (msg, with the values formatted
\* into it in data) or the exception that leaves it (raised), its engine
\* interactions in order, and the registry, files and rows it leaves behind.
Outcome(msg, raised, trace, data, reg, fs, rw) ==
  [msg |-> msg, raised |-> raised, trace |-> trace, data |-> data,
   reg |-> reg, files |-> fs, rows |-> rw]

\* A handler that returns a string and changes nothing.
Returns(msg, trace, data) ==
  Outcome(msg, FALSE, trace, data, attached_databases, files, rows)

\* A handler an exception leaves.
Raises(exc, trace) ==
  Outcome(exc, TRUE, trace, <<>>, attached_databases, files, rows)

MsgNotFound      == "Error: Database file not found"
MsgAliasInvalid  == "Error: Alias must contain only letters and numbers"
MsgAttached      == "Successfully attached database"
MsgAttachError   == "Error attaching database"
MsgListAttached  == "Attached databases:"
MsgExists        == "Database file already exists"
MsgCreated       == "Created and attached new database"
MsgCreateError   == "Error creating new database"
MsgNoResults     == "Query executed successfully but returned no results."
MsgTable         == "df.to_string()"
MsgRowsAffected  == "Query executed successfully. Rows affected:"
MsgQueryError    == "Error executing query"
MsgRejected      == "Error: Only UPDATE, INSERT, and DELETE statements are allowed"
MsgModified      == "Successfully modified rows"
MsgUpdateError   == "Error updating data"
MsgTables        == "Available tables:"
MsgSchema        == "Table:"
MsgSchemaError   == "Error retrieving schema"
MsgStats         == "json.dumps(stats)"
MsgAnalyzeError  == "Error analyzing table"
ExcEngine        == "sqlite3.Error"

\* attach_database with the alias recorded before it is validated.
attach_database_recordsFirst(alias, database_name) ==
  LET full_db_path == PathJoin(default_db_dir, database_name)
      conn         == EvConnect(DEFAULT_DB_PATH)
      reg          == DictSet(attached_databases, alias, full_db_path)
  IN IF full_db_path \notin files
     THEN Returns(MsgNotFound, <<>>, <<>>)
     ELSE IF ~IsAlnum(alias)
     THEN Outcome(MsgAliasInvalid, FALSE, <<conn, EvCommit>>, <<>>, reg, files, rows)
     ELSE IF AttachRaises(alias, full_db_path, {}, files)
     THEN Returns(MsgAttachError, <<conn, EvAttach(alias), EvRollback>>, <<>>)
     ELSE Outcome(MsgAttached, FALSE,
                  <<conn, EvAttach(alias), EvRegister(alias), EvCommit>>, <<>>,
                  reg, files, rows)

\* The tool attach_database of server.py.
attach_database(alias, database_name) ==
  LET full_db_path == PathJoin(default_db_dir, database_name)
      conn         == EvConnect(DEFAULT_DB_PATH)
  IN IF full_db_path \notin files
     THEN Returns(MsgNotFound, <<>>, <<>>)
     ELSE IF ~IsAlnum(alias)
     THEN Returns(MsgAliasInvalid, <<conn, EvCommit>>, <<>>)
     ELSE IF AttachRaises(alias, full_db_path, {}, files)
     THEN Returns(MsgAttachError, <<conn, EvAttach(alias), EvRollback>>, <<>>)
     ELSE Outcome(MsgAttached, FALSE,
                  <<conn, EvAttach(alias), EvRegister(alias), EvCommit>>, <<>>,
                  DictSet(attached_databases, alias, full_db_path), files, rows)

\* The tool list_attached_databases of server.py.
list_attached_databases == Returns(MsgListAttached, <<>>, attached_databases)

\* create_database with the alias recorded before the file is created.
create_database_recordsFirst(db_name, alias) ==
  LET full_db_path == PathJoin(default_db_dir, db_name)
      reg          == DictSet(attached_databases, alias, full_db_path)
  IN IF full_db_path \in files
     THEN Returns(MsgExists, <<>>, <<>>)
     ELSE IF ConnectRaises(full_db_path, files)
     THEN Outcome(MsgCreateError, FALSE,
                  <<EvRegister(alias), Ev("connect_failed", full_db_path)>>, <<>>,
                  reg, files, rows)
     ELSE Outcome(MsgCreated, FALSE,
                  <<EvRegister(alias), EvConnect(full_db_path), EvClose>>, <<>>,
                  reg, files \cup {full_db_path}, rows)

\* The tool create_database of server.py.
create_database(db_name, alias) ==
  LET full_db_path == PathJoin(default_db_dir, db_name)
  IN IF full_db_path \in files
     THEN Returns(MsgExists, <<>>, <<>>)
     ELSE IF ConnectRaises(full_db_path, files)
     THEN Returns(MsgCreateError, <<Ev("connect_failed", full_db_path)>>, <<>>)
     ELSE Outcome(MsgCreated, FALSE,
                  <<EvConnect(full_db_path), EvClose, EvRegister(alias)>>, <<>>,
                  DictSet(attached_databases, alias, full_db_path),
                  files \cup {full_db_path}, rows)


\* The loop of query that re-applies the registry to the fresh connection, from
\* entry i on: it stops at the first ATTACH that raises.
RECURSIVE Replay(_, _, _, _)
Replay(reg, i, have, trace) ==
  IF i > Len(reg) THEN [ok |-> TRUE, have |-> have, trace |-> trace]
  ELSE IF AttachRaises(reg[i].alias, reg[i].path, have, files)
  THEN [ok |-> FALSE, have |-> have, trace |-> Append(trace, EvAttach(reg[i].alias))]
  ELSE Replay(reg, i + 1, have \cup {reg[i]}, Append(trace, EvAttach(reg[i].alias)))

\* sql.strip().upper().startswith('SELECT')
IsSelectText(sql) == StartsWith(Upper(Strip(sql)), KwSelect)

\* The tool query of server.py.  cursor.rowcount is -1 for a statement that
\* returns rows; a cursor always has the attribute, so the last return of the
\* code is never taken.
query(sql, fault) ==
  LET r == Replay(attached_databases, 1, {}, <<EvConnect(DEFAULT_DB_PATH)>>)
      e == Execute(sql, r.have, rows, fault)
      t == Append(r.trace, EvExecute(sql))
  IN IF ~r.ok THEN Raises(ExcEngine, Append(r.trace, EvRollback))
     ELSE IF IsSelectText(sql)
     THEN IF e.err THEN Raises(ExcEngine, Append(t, EvRollback))
          ELSE IF ~e.query THEN Raises("TypeError", Append(t, EvRollback))
          ELSE IF e.n = 0 THEN Returns(MsgNoResults, Append(t, EvCommit), <<>>)
          ELSE Returns(MsgTable, Append(t, EvCommit), <<e.n>>)
     ELSE IF e.err THEN Raises(ExcEngine, Append(t, EvRollback))
          ELSE Outcome(MsgRowsAffected, FALSE, t \o <<EvCommit, EvCommit>>,
                       <<IF e.query THEN -1 ELSE e.n>>,
                       attached_databases, files, e.rows)

\* The tool query of sqlite-mcp-server.py: every statement goes through
\* pd.read_sql_query, which raises on a statement that returns no rows
\* description; the with block then rolls the statement back.
query_legacy(sql, fault) ==
  LET e == Execute(sql, {}, rows, fault)
      t == <<EvConnect(DEFAULT_DB_PATH), EvExecute(sql)>>
  IN IF e.err \/ ~e.query THEN Returns(MsgQueryError, Append(t, EvRollback), <<>>)
     ELSE Returns(MsgTable, Append(t, EvCommit), <<e.n>>)

\* The keyword test without upper().
HasWriteKeyword_caseSensitive(sql) ==
  \E kw \in {KwUpdate, KwInsert, KwDelete} : Contains(sql, kw)

\* any(keyword in sql.upper() for keyword in ["UPDATE", "INSERT", "DELETE"])
HasWriteKeyword(sql) ==
  \E kw \in {KwUpdate, KwInsert, KwDelete} : Contains(Upper(sql), kw)

\* update_data with the registry re-applied to its connection, as query does.
update_data_replays(table, sql, fault) ==
  LET r == Replay(attached_databases, 1, {}, <<EvConnect(DEFAULT_DB_PATH)>>)
      e == Execute(sql, r.have, rows, fault)
      t == Append(r.trace, EvExecute(sql))
  IN IF ~HasWriteKeyword(sql) THEN Returns(MsgRejected, <<>>, <<>>)
     ELSE IF ~r.ok \/ e.err THEN Returns(MsgUpdateError, Append(t, EvRollback), <<>>)
     ELSE Outcome(MsgModified, FALSE, t \o <<EvCommit, EvCommit>>,
                  <<IF e.query THEN -1 ELSE e.n>>,
                  attached_databases, files, e.rows)

\* The tool update_data, the same in both files.
update_data(table, sql, fault) ==
  LET e == Execute(sql, {}, rows, fault)
      t == <<EvConnect(DEFAULT_DB_PATH), EvExecute(sql)>>
  IN IF ~HasWriteKeyword(sql) THEN Returns(MsgRejected, <<>>, <<>>)
     ELSE IF e.err THEN Returns(MsgUpdateError, Append(t, EvRollback), <<>>)
     ELSE Outcome(MsgModified, FALSE, t \o <<EvCommit, EvCommit>>,
                  <<IF e.query THEN -1 ELSE e.n>>,
                  attached_databases, files, e.rows)

\* The tool get_database_path, the same in both files.
get_database_path == Returns("DEFAULT_DB_PATH", <<>>, DEFAULT_DB_PATH)

\* The tool analyze_table, the same in both files: both analysis types read the
\* whole table and report its row count.
analyze_table(table, analysis_type, fault) ==
  LET sql == SelectFrom \o table
      e   == Execute(sql, {}, rows, fault)
      t   == <<EvConnect(DEFAULT_DB_PATH), EvExecute(sql)>>
  IN IF e.err THEN Returns(MsgAnalyzeError, Append(t, EvRollback), <<>>)
     ELSE Returns(MsgStats, Append(t, EvCommit), <<e.n>>)

SqlMasterNames == <<"S","E","L","E","C","T"," ","n","a","m","e">>
SqlMasterSql   == <<"S","E","L","E","C","T"," ","s","q","l">>
SqlTableInfo   == <<"P","R","A","G","M","A">>

\* DatabaseManager.get_tables, as the resource schema://tables calls it, with
\* no try around it.
list_tables(fault) ==
  LET t == <<EvConnect(DEFAULT_DB_PATH), EvExecute(SqlMasterNames)>>
  IN IF fault THEN Raises(ExcEngine, Append(t, EvRollback))
     ELSE Returns(MsgTables, Append(t, EvCommit), <<TableT>>)

\* The resource schema://{table}: get_schema, then get_table_info, each on its
\* own connection; the name is matched exactly.
get_table_schema(table, fault1, fault2) ==
  LET t1 == <<EvConnect(DEFAULT_DB_PATH), EvExecute(SqlMasterSql)>>
      t2 == <<EvConnect(DEFAULT_DB_PATH), EvExecute(SqlTableInfo)>>
  IN IF fault1 \/ table # TableT
     THEN Returns(MsgSchemaError, Append(t1, EvRollback), <<>>)
     ELSE IF fault2
     THEN Returns(MsgSchemaError, Append(t1, EvCommit) \o Append(t2, EvRollback), <<>>)
     ELSE Returns(MsgSchema, Append(t1, EvCommit) \o Append(t2, EvCommit), <<table>>)

\* ----------------------------------------------------------------- actions
\* Connections an operation opened and did not close itself.
Unclosed(trace) ==
  Cardinality({i \in DOMAIN trace : trace[i][1] = "connect"})
    - Cardinality({i \in DOMAIN trace : trace[i][1] = "close"})

\* One operation, from call to return.  A connection the handler leaves to its
\* with block is committed or rolled back there, not closed: the runtime closes
\* it when it finalises the object, at the return or later.
Do(op, args, outcome) ==
  \E r \in {outcome} :
     /\ call' = [op |-> op, args |-> args, msg |-> r.msg, raised |-> r.raised,
                 trace |-> r.trace, data |-> r.data]
     /\ attached_databases' = r.reg
     /\ files' = r.files
     /\ rows' = r.rows
     /\ \E k \in 0..Unclosed(r.trace) :
           /\ openConns + k <= MaxOpen
           /\ openConns' = openConns + k
     /\ UNCHANGED variant

AttachDatabase ==
  /\ variant = Server
  /\ \E alias \in Aliases, database_name \in Names :
        Do("attach_database", [alias |-> alias, name |-> database_name],
           attach_database(alias, database_name))

ListAttachedDatabases ==
  /\ variant = Server
  /\ Do("list_attached_databases", <<>>, list_attached_databases)

CreateDatabase ==
  /\ variant = Server
  /\ \E db_name \in Names, alias \in Aliases :
        Do("create_database", [alias |-> alias, name |-> db_name],
           create_database(db_name, alias))

Query ==
  /\ variant = Server
  /\ \E rq \in Requests :
        Do("query", [sql |-> rq[1]], query(rq[1], rq[2]))

QueryLegacy ==
  /\ variant = Legacy
  /\ \E rq \in Requests :
        Do("query", [sql |-> rq[1]], query_legacy(rq[1], rq[2]))

UpdateData ==
  \E table \in {TableT}, rq \in Requests :
     Do("update_data", [table |-> table, sql |-> rq[1]],
        update_data(table, rq[1], rq[2]))

GetDatabasePath == Do("get_database_path", <<>>, get_database_path)

AnalyzeTable ==
  \E rq \in TableRequests, analysis_type \in {"basic", "detailed"} :
     Do("analyze_table", [table |-> rq[1], type |-> analysis_type],
        analyze_table(rq[1], analysis_type, rq[2]))

ListTables ==
  \E fault \in BOOLEAN : Do("schema://tables", <<>>, list_tables(fault))

GetTableSchema ==
  \E rq \in TableRequests, fault2 \in BOOLEAN :
     /\ (fault2 => rq = <<TableT, FALSE>>)
     /\ Do("schema://{table}", [table |-> rq[1]],
           get_table_schema(rq[1], rq[2], fault2))

\* The runtime finalises a connection object no operation refers to any more.
Finalize ==
  /\ openConns > 0
  /\ openConns' = openConns - 1
  /\ UNCHANGED <<variant, files, attached_databases, rows, call>>

Init ==
  /\ variant \in {Server, Legacy}
  /\ files = {DEFAULT_DB_PATH, PathJoin(default_db_dir, NameOther)}
  /\ attached_databases = <<>>
  /\ rows \in {0, 1}
  /\ openConns = 0
  /\ call = [op |-> "init", args |-> <<>>, msg |-> "", raised |-> FALSE,
             trace |-> <<>>, data |-> <<>>]

Next ==
  \/ AttachDatabase
  \/ ListAttachedDatabases
  \/ CreateDatabase
  \/ Query
  \/ QueryLegacy
  \/ UpdateData
  \/ GetDatabasePath
  \/ AnalyzeTable
  \/ ListTables
  \/ GetTableSchema
  \/ Finalize

Spec == Init /\ [][Next]_vars


\* ------------------------------------------------------------------ claims
\* Position of the first event e of a trace, 0 when it has none.
FirstAt(trace, e) ==
  LET at == {i \in DOMAIN trace : trace[i] = e}
  IN IF at = {} THEN 0 ELSE CHOOSE i \in at : \A j \in at : i <= j

\* The trace holds an event of the kind: "connect", "attach", "execute", ...
HasEvent(trace, kind) == \E i \in DOMAIN trace : trace[i][1] = kind

\* A step in which the operation op ran.  The only steps it leaves out are the
\* ones that change nothing but the number of open connections.
Ran(op) ==
  /\ call'.op = op
  /\ <<call, files, attached_databases, rows>>' # <<call, files, attached_databases, rows>>

\* The strings that report a failed validation.
ValidationMessages == {MsgAliasInvalid, MsgRejected, MsgNotFound, MsgExists}

\* C1: every public operation returns a string, whatever the input and the
\* engine's outcome; no exception leaves an operation.
C1_NothingEscapes == call.raised = FALSE

\* C2: every alias that is a key of the attachment registry consists of
\* letters and digits only.
C2_AliasesAlphanumeric == \A a \in Keys(attached_databases) : IsAlnum(a)

C4_QueryReplaysEveryAttachment ==
  /\ (call.op = "attach_database" /\ call.msg = MsgAttached)
       => /\ call.args.alias \in Keys(attached_databases)
          /\ Lookup(attached_databases, call.args.alias)
               = PathJoin(default_db_dir, call.args.name)
  /\ call.op = "list_attached_databases" => call.data = attached_databases
  /\ ( /\ call.op = "query" /\ variant = Server
       /\ \A i \in DOMAIN attached_databases :
             ~AttachRaises(attached_databases[i].alias, attached_databases[i].path,
                           {}, files) )
       => LET x == FirstAt(call.trace, EvExecute(call.args.sql))
          IN /\ x > 0
             /\ \A a \in Keys(attached_databases) :
                   LET y == FirstAt(call.trace, EvAttach(a)) IN 0 < y /\ y < x
             /\ ( /\ call.args.sql = SqlSelectExt
                  /\ AliasExt \in Keys(attached_databases)
                  /\ Lookup(attached_databases, AliasExt) \in FilesWithS )
                  => call.msg = MsgTable

\* C5: every connection an operation opened is closed when the operation has
\* returned or raised; between operations no connection is open.
C5_NoConnectionLeftOpen == openConns = 0

\* C6: update_data opens a connection and executes sql exactly when the
\* upper-cased sql contains UPDATE, INSERT or DELETE; otherwise it returns the
\* fixed rejection, interacts with no engine and changes no state.
C6_UpdateDataKeywordGate ==
  [][Ran("update_data") =>
       \A sql \in {call'.args.sql} :
       \A keyword \in {\E kw \in {KwUpdate, KwInsert, KwDelete} :
                           Contains(Upper(sql), kw)} :
          /\ ~call'.raised
          /\ keyword <=> (/\ call'.trace # <<>>
                          /\ call'.trace[1] = EvConnect(DEFAULT_DB_PATH)
                          /\ call'.trace[2] = EvExecute(sql))
          /\ ~keyword => /\ call'.msg = MsgRejected
                         /\ call'.trace = <<>>
                         /\ UNCHANGED <<files, attached_databases, rows>>
  ]_vars

\* C6 witness: a statement that only mentions a keyword inside a literal was
\* executed, and reported the row count of a statement that returns rows.
C6_Witness ==
  /\ call.op = "update_data"
  /\ call.args.sql = SqlLiteral
  /\ call.msg = MsgModified
  /\ call.data = <<-1>>

\* C7: every validation failure is detected before the operation opens a
\* connection or executes a statement: a call with a non-alphanumeric alias,
\* a statement without an allowed keyword, a missing file to attach or an
\* existing file to create returns its message with no engine interaction.
C7_ValidationBeforeEngine ==
  /\ call.msg \in ValidationMessages => call.trace = <<>>
  /\ (call.op \in {"attach_database", "create_database"} /\ ~IsAlnum(call.args.alias))
       => call.trace = <<>>

\* C8: create_database on an existing target file returns the failure message
\* and changes neither the files nor the registry; on a missing target file it
\* creates the file before it records alias -> path, so that after a success
\* the file exists and the registry maps the alias to it; when the file cannot
\* be created nothing is recorded.
C8_CreateThenRecord ==
  [][Ran("create_database") =>
       LET a == call'.args.alias
           p == PathJoin(default_db_dir, call'.args.name)
           c == FirstAt(call'.trace, EvConnect(p))
           r == FirstAt(call'.trace, EvRegister(a))
       IN /\ ~call'.raised
          /\ p \in files
               => /\ call'.msg = MsgExists
                  /\ UNCHANGED <<files, attached_databases>>
          /\ p \notin files
               => /\ call'.msg \in {MsgCreated, MsgCreateError}
                  /\ files' \in {files, files \cup {p}}
                  /\ attached_databases' # attached_databases
                       => (p \in files' /\ 0 < c /\ c < r)
                  /\ r > 0 => (0 < c /\ c < r)
          /\ call'.msg = MsgCreated
               => /\ p \in files'
                  /\ a \in Keys(attached_databases')
                  /\ Lookup(attached_databases', a) = p
          /\ call'.msg # MsgCreated => UNCHANGED <<files, attached_databases>>
  ]_vars

\* C8 witness: a database was created and recorded under an alias the registry
\* did not hold, next to an older entry.
C8_Witness ==
  /\ call.op = "create_database"
  /\ call.msg = MsgCreated
  /\ call.args.name = NameNew
  /\ PathJoin(default_db_dir, NameNew) \in files
  /\ Len(attached_databases) = 2
  /\ attached_databases[2] = [alias |-> call.args.alias,
                              path |-> PathJoin(default_db_dir, NameNew)]

\* C9: a query whose statement is a SELECT that yields zero rows returns the
\* no-results message, in both source files.  Stated for SELECT * FROM t on an
\* empty table t, executed without an engine error.
C9_EmptySelectSaysNoResults ==
  ( /\ call.op = "query"
    /\ call.trace # <<>>
    /\ call.trace[Len(call.trace)] = EvCommit
    /\ call.args.sql = SqlSelectT
    /\ rows = 0 )
    => call.msg = MsgNoResults

\* The replay of a registry raises on a fresh connection.
ReplayFails(reg) == ~Replay(reg, 1, {}, <<>>).ok

\* A query call that failed before it executed the caller's statement.
FailedBeforeStatement(c) == c.raised /\ ~HasEvent(c.trace, "execute")

\* C10 as stated: no operation removes a registry entry or rewrites it to a
\* valid one, so once the replay of the registry fails, this query call and
\* every later one fail before executing the caller's statement.
C10_ReplayFailureIsPermanent ==
  [][ /\ (attached_databases' # attached_databases /\ ReplayFails(attached_databases))
           => ReplayFails(attached_databases')
      /\ (Ran("query") /\ variant = Server /\ ReplayFails(attached_databases))
           => FailedBeforeStatement(call')
  ]_vars

\* C10 amended: no operation removes a registry entry; a query call whose
\* replay fails fails before executing the caller's statement; and the replay
\* keeps failing for as long as no attach_database or create_database call
\* overwrites the path of an alias the registry already holds.
C10_ReplayFailureUntilOverwritten ==
  [][ /\ attached_databases' # attached_databases
           => /\ Keys(attached_databases) \subseteq Keys(attached_databases')
              /\ Len(attached_databases) <= Len(attached_databases')
              /\ ( /\ ReplayFails(attached_databases)
                   /\ \A a \in Keys(attached_databases) :
                         Lookup(attached_databases', a) = Lookup(attached_databases, a) )
                   => ReplayFails(attached_databases')
      /\ (Ran("query") /\ variant = Server /\ ReplayFails(attached_databases))
           => FailedBeforeStatement(call')
  ]_vars

\* C10 witness: a query failed in the replay of a registry of two entries,
\* each of which attaches on its own.
C10_Witness ==
  /\ call.op = "query"
  /\ FailedBeforeStatement(call)
  /\ Len(attached_databases) = 2
  /\ \A i \in 1..2 :
        ~AttachRaises(attached_databases[i].alias, attached_databases[i].path, {}, files)


\* The operations that read or write the database and are not the query tool.
UnattachedOperations ==
  {"update_data", "analyze_table", "schema://tables", "schema://{table}"}

\* C11: only the query tool re-applies the registry.  update_data,
\* analyze_table, schema://tables and schema://{table} execute no ATTACH,
\* whatever the registry holds, so a statement or a table name on ext.s fails
\* to resolve through them and the table list holds the primary database's
\* tables only; the query tool of server.py attaches whenever the registry is
\* not empty.
C11_OnlyQueryReplays ==
  /\ call.op \in UnattachedOperations
       => /\ ~HasEvent(call.trace, "attach")
          /\ (call.op = "update_data" /\ call.args.sql = SqlUpdateExt)
               => call.msg = MsgUpdateError
          /\ (call.op = "analyze_table" /\ call.args.table = TableExtS)
               => call.msg = MsgAnalyzeError
          /\ (call.op = "schema://{table}" /\ call.args.table = TableExtS)
               => call.msg = MsgSchemaError
          /\ (call.op = "schema://tables" /\ ~call.raised)
               => call.data = <<TableT>>
  /\ (call.op = "query" /\ variant = Server /\ attached_databases # <<>>)
       => HasEvent(call.trace, "attach")

\* C11 witness: update_data failed on a statement on ext.s while the registry
\* held ext for the file that holds s, and nothing else: a registry the query
\* tool replays without error.
C11_Witness ==
  /\ call.op = "update_data"
  /\ call.args.sql = SqlUpdateExt
  /\ call.msg = MsgUpdateError
  /\ attached_databases =
       <<[alias |-> AliasExt, path |-> PathJoin(default_db_dir, NameOther)]>>

====
